---------------------------- MODULE Spec2Model ----------------------------
(***************************************************************************)
(* Model of src/session_resolver.js: the session resolution pipeline       *)
(* resolveSession = merge defaults and overrides, normalizeSessionValues,  *)
(* validateSession, applySafetyRules, deriveSession (with its batching     *)
(* loop), warning suppression.                                             *)
(*                                                                         *)
(* JavaScript values are records [t, r, s, b]: t is the type tag           *)
(* ("undef" for an absent property), r the number, s the string as a       *)
(* sequence of tokens (single characters, or one opaque alphabetic word),  *)
(* b the boolean.  Numbers are exact extended rationals [k, p, q]:         *)
(* k = "fin" (p/q in lowest terms, q > 0), "pinf", "ninf" or "nan".        *)
(* IEEE rounding error of the double arithmetic is not modelled.          *)
(***************************************************************************)
EXTENDS Integers, Sequences, FiniteSets, TLC

(***************************************************************************)
(* Bounds of the model.                                                    *)
(***************************************************************************)
\* The batching loop is followed for at most MaxIdx iterations.
MaxIdx == 6
\* Share percentages tried for the hybrid preferment are multiples of 10
\* from -10 up to 10 * MaxShareStep, plus a few odd values.
MaxShareStep == 7

(***************************************************************************)
(* Extended rational numbers (the JS number type).                         *)
(***************************************************************************)
Abs(n) == IF n < 0 THEN -n ELSE n

RECURSIVE GCD(_, _)
GCD(a, b) == IF b = 0 THEN a ELSE GCD(b, a % b)

Pow10(d) == CASE d = 0 -> 1 [] d = 1 -> 10 [] d = 2 -> 100 [] d = 3 -> 1000

Fin(p, q) ==
  LET g == GCD(Abs(p), q)
  IN  [k |-> "fin", p |-> p \div g, q |-> q \div g]

RInt(n) == [k |-> "fin", p |-> n, q |-> 1]
RZero == RInt(0)
RNaN == [k |-> "nan", p |-> 0, q |-> 1]
RPInf == [k |-> "pinf", p |-> 0, q |-> 1]
RNInf == [k |-> "ninf", p |-> 0, q |-> 1]

\* -1, 0, 1 for a non-NaN number
Sign(x) ==
  CASE x.k = "pinf" -> 1
    [] x.k = "ninf" -> -1
    [] x.k = "fin" -> (IF x.p > 0 THEN 1 ELSE IF x.p < 0 THEN -1 ELSE 0)
    [] OTHER -> 0

RInfOf(sgn) == IF sgn > 0 THEN RPInf ELSE RNInf

RNeg(x) ==
  CASE x.k = "fin" -> [k |-> "fin", p |-> -x.p, q |-> x.q]
    [] x.k = "pinf" -> RNInf
    [] x.k = "ninf" -> RPInf
    [] OTHER -> RNaN

RAdd(x, y) ==
  CASE x.k = "nan" \/ y.k = "nan" -> RNaN
    [] x.k = "fin" /\ y.k = "fin" ->
         LET g == GCD(x.q, y.q)
         IN  Fin(x.p * (y.q \div g) + y.p * (x.q \div g), (x.q \div g) * y.q)
    [] x.k = "fin" -> y
    [] y.k = "fin" -> x
    [] x.k = y.k -> x
    [] OTHER -> RNaN

RSub(x, y) == RAdd(x, RNeg(y))

RMul(x, y) ==
  CASE x.k = "nan" \/ y.k = "nan" -> RNaN
    [] x.k = "fin" /\ y.k = "fin" ->
         LET g1 == GCD(Abs(x.p), y.q)
             g2 == GCD(Abs(y.p), x.q)
         IN  Fin((x.p \div g1) * (y.p \div g2), (x.q \div g2) * (y.q \div g1))
    [] Sign(x) = 0 \/ Sign(y) = 0 -> RNaN
    [] OTHER -> RInfOf(Sign(x) * Sign(y))

RDiv(x, y) ==
  CASE x.k = "nan" \/ y.k = "nan" -> RNaN
    [] x.k = "fin" /\ y.k = "fin" ->
         IF y.p = 0
           THEN (IF x.p = 0 THEN RNaN ELSE RInfOf(Sign(x)))
           ELSE RMul(x, IF y.p > 0 THEN [k |-> "fin", p |-> y.q, q |-> y.p]
                                   ELSE [k |-> "fin", p |-> -y.q, q |-> -y.p])
    [] x.k = "fin" -> RZero
    [] y.k = "fin" -> RInfOf(Sign(x) * (IF y.p < 0 THEN -1 ELSE 1))
    [] OTHER -> RNaN

\* x < y as JS compares numbers (false when either is NaN)
RLess(x, y) ==
  CASE x.k = "nan" \/ y.k = "nan" -> FALSE
    [] x.k = "fin" /\ y.k = "fin" ->
         LET g == GCD(x.q, y.q)
         IN  x.p * (y.q \div g) < y.p * (x.q \div g)
    [] x.k = "ninf" -> y.k # "ninf"
    [] y.k = "pinf" -> x.k # "pinf"
    [] OTHER -> FALSE

RGreater(x, y) == RLess(y, x)

\* Math.min / Math.max
MathMin(x, y) ==
  IF x.k = "nan" \/ y.k = "nan" THEN RNaN ELSE IF RLess(y, x) THEN y ELSE x

MathMax(x, y) ==
  IF x.k = "nan" \/ y.k = "nan" THEN RNaN ELSE IF RLess(x, y) THEN y ELSE x

\* Math.round: the nearest integer, ties towards +Infinity
MathRound(x) ==
  IF x.k = "fin"
    THEN LET n == x.p \div x.q
         IN  RInt(IF 2 * (x.p - n * x.q) >= x.q THEN n + 1 ELSE n)
    ELSE x

RIsFinite(x) == x.k = "fin"

\* a number is truthy unless it is 0 or NaN
RTruthy(x) == x.k \in {"pinf", "ninf"} \/ (x.k = "fin" /\ x.p # 0)

ROr(x, y) == IF RTruthy(x) THEN x ELSE y

\* n / 100, the notation for the model's decimal literals
Dec(n) == Fin(n, 100)

R100 == RInt(100)

(***************************************************************************)
(* const clamp, round                                                      *)
(***************************************************************************)
clamp(n, min, max) == MathMax(min, MathMin(max, n))

round(n, d) == RDiv(MathRound(RMul(n, RInt(Pow10(d)))), RInt(Pow10(d)))

(***************************************************************************)
(* JS values                                                               *)
(***************************************************************************)
Undef == [t |-> "undef", r |-> RZero, s |-> <<>>, b |-> FALSE]
Null == [t |-> "null", r |-> RZero, s |-> <<>>, b |-> FALSE]
Bool(x) == [t |-> "bool", r |-> RZero, s |-> <<>>, b |-> x]
NumR(x) == [t |-> "num", r |-> x, s |-> <<>>, b |-> FALSE]
Num(n) == NumR(RInt(n))
NumD(n) == NumR(Dec(n))
Str(toks) == [t |-> "str", r |-> RZero, s |-> toks, b |-> FALSE]
\* an identifier-like string: one opaque alphabetic word
Id(w) == Str(<<w>>)

\* value == null
IsNullish(v) == v.t \in {"undef", "null"}

Digit == {"0", "1", "2", "3", "4", "5", "6", "7", "8", "9"}
DigitSeq == <<"0", "1", "2", "3", "4", "5", "6", "7", "8", "9">>
DigitVal(c) == (CHOOSE i \in 1..10 : DigitSeq[i] = c) - 1

RECURSIVE TrimLeft(_)
TrimLeft(s) ==
  IF s # <<>> /\ Head(s) = " " THEN TrimLeft(Tail(s)) ELSE s

RECURSIVE TrimRight(_)
TrimRight(s) ==
  IF s # <<>> /\ s[Len(s)] = " " THEN TrimRight(SubSeq(s, 1, Len(s) - 1)) ELSE s

\* String.prototype.trim
Trim(s) == TrimRight(TrimLeft(s))

\* String.prototype.replace(",", "."): the first occurrence only
ReplaceComma(s) ==
  IF \E i \in 1..Len(s) : s[i] = ","
    THEN LET i == CHOOSE j \in 1..Len(s) :
                     s[j] = "," /\ \A h \in 1..(j - 1) : s[h] # ","
         IN  [s EXCEPT ![i] = "."]
    ELSE s

RECURSIVE DigitsValue(_)
DigitsValue(s) ==
  IF s = <<>> THEN 0
  ELSE 10 * DigitsValue(SubSeq(s, 1, Len(s) - 1)) + DigitVal(s[Len(s)])

AllDigits(s) == \A i \in 1..Len(s) : s[i] \in Digit

\* an unsigned decimal literal: digits, optionally "." and digits, at least
\* one digit, at most three decimals (exponents and hex are not modelled)
UnsignedDecimal(s) ==
  IF \E i \in 1..Len(s) : s[i] = "."
    THEN LET i == CHOOSE j \in 1..Len(s) :
                     s[j] = "." /\ \A h \in 1..(j - 1) : s[h] # "."
             ip == SubSeq(s, 1, i - 1)
             fp == SubSeq(s, i + 1, Len(s))
         IN  IF AllDigits(ip) /\ AllDigits(fp) /\ Len(ip) + Len(fp) > 0
                  /\ Len(fp) <= 3
               THEN Fin(DigitsValue(ip) * Pow10(Len(fp)) + DigitsValue(fp),
                        Pow10(Len(fp)))
               ELSE RNaN
    ELSE IF s # <<>> /\ AllDigits(s) THEN RInt(DigitsValue(s)) ELSE RNaN

\* Number(string)
StringToNumber(s) ==
  LET c == Trim(s)
  IN  IF c = <<>> THEN RZero
      ELSE IF c = <<"Infinity">> \/ c = <<"+", "Infinity">> THEN RPInf
      ELSE IF c = <<"-", "Infinity">> THEN RNInf
      ELSE IF Head(c) = "-" THEN RNeg(UnsignedDecimal(Tail(c)))
      ELSE IF Head(c) = "+" THEN UnsignedDecimal(Tail(c))
      ELSE UnsignedDecimal(c)

\* Number(value)
ToNumber(v) ==
  CASE v.t = "num" -> v.r
    [] v.t = "str" -> StringToNumber(v.s)
    [] v.t = "bool" -> (IF v.b THEN RInt(1) ELSE RZero)
    [] v.t = "null" -> RZero
    [] OTHER -> RNaN

\* truthiness of a value
Truthy(v) ==
  CASE v.t = "num" -> RTruthy(v.r)
    [] v.t = "str" -> v.s # <<>>
    [] v.t = "bool" -> v.b
    [] OTHER -> FALSE

\* a || b and a ?? b
Or(a, b) == IF Truthy(a) THEN a ELSE b
Coalesce(a, b) == IF IsNullish(a) THEN b ELSE a

(***************************************************************************)
(* Property names.  Objects (session, defaults, overrides) are functions   *)
(* from AllKeys to values, Undef standing for an absent property.          *)
(***************************************************************************)
PercentKeys ==
  {"hydration_percent", "salt_percent", "oil_percent", "honey_percent",
   "sugar_percent", "diastatic_malt_percent", "yeast_percent",
   "preferment_flour_percent_of_total", "preferment_hydration_percent",
   "hybrid_poolish_share_percent", "hybrid_biga_share_percent",
   "poolish_hydration_percent", "biga_hydration_percent",
   "starter_inoculation_percent", "starter_hydration_percent"}

EnabledKeys == {"preferment_enabled", "starter_enabled", "warnings_enabled"}

PlainKeys ==
  {"method_id", "pizza_style_id", "oven_type", "flour_blend_id",
   "total_fermentation_hours", "target_pizza_count", "dough_unit_weight_g",
   "pan_or_tray_area_cm2", "dough_grams_per_cm2", "batching_max_dough_mass_g"}

\* properties that the schema of the model does not name
NonSchemaKeys == {"target_total_dough_g", "notes"}

AllKeys == PercentKeys \cup EnabledKeys \cup PlainKeys \cup NonSchemaKeys

\* key.includes("_percent") and key.endsWith("_enabled"), over AllKeys
isPercentField(key) == key \in PercentKeys
isEnabledField(key) == key \in EnabledKeys

EmptyObj == [k \in AllKeys |-> Undef]

\* the object literal with the properties of f
Obj(f) == [k \in AllKeys |-> IF k \in DOMAIN f THEN f[k] ELSE Undef]

Has(o, k) == o[k].t # "undef"

\* { ...a, ...b }
Spread(a, b) == [k \in AllKeys |-> IF Has(b, k) THEN b[k] ELSE a[k]]

SeqToSet(s) == {s[i] : i \in 1..Len(s)}

\* the fields of the three schema categories, in order
SchemaFieldList(schema) ==
  schema.required_core_fields \o schema.required_time_model_fields
    \o schema.optional_fields

SchemaFieldSet(schema) == SeqToSet(SchemaFieldList(schema))

(***************************************************************************)
(* buildEmptySessionFromSchema                                             *)
(***************************************************************************)
buildEmptySessionFromSchema(schema) ==
  [k \in AllKeys |->
     IF k \in SchemaFieldSet(schema)
       THEN IF isPercentField(k) THEN Num(0)
            ELSE IF isEnabledField(k) THEN Bool(FALSE)
            ELSE Null
       ELSE Undef]

(***************************************************************************)
(* parseMaybeNumber                                                        *)
(***************************************************************************)
\* parseMaybeNumber, were it to return the string with its comma replaced
\* when the string is no finite number
parseMaybeNumberReturnsNormalized(value, key) ==
  IF value.t = "num" THEN value
  ELSE IF value.t = "str" THEN
    LET cleaned == Trim(value.s)
        normalized == ReplaceComma(cleaned)
        num == StringToNumber(normalized)
    IN  IF cleaned = <<>> THEN (IF isPercentField(key) THEN Num(0) ELSE Null)
        ELSE IF RIsFinite(num) THEN NumR(num) ELSE Str(normalized)
  ELSE value

parseMaybeNumber(value, key) ==
  IF value.t = "num" THEN value
  ELSE IF value.t = "str" THEN
    LET cleaned == Trim(value.s)
        normalized == ReplaceComma(cleaned)
        num == StringToNumber(normalized)
    IN  IF cleaned = <<>> THEN (IF isPercentField(key) THEN Num(0) ELSE Null)
        ELSE IF RIsFinite(num) THEN NumR(num) ELSE value
  ELSE value

(***************************************************************************)
(* normalizeSessionValues.  ranges[key] is [has, min, max]: has is the     *)
(* truthiness of ranges[key], min and max its two elements.                *)
(***************************************************************************)
NoRange == [has |-> FALSE, min |-> Undef, max |-> Undef]
Range(lo, hi) == [has |-> TRUE, min |-> lo, max |-> hi]
NoRanges == [k \in AllKeys |-> NoRange]

normalizeValue(v0, key, ranges) ==
  LET v1 == parseMaybeNumber(v0, key)
      v2 == IF IsNullish(v1)
              THEN IF isEnabledField(key) THEN Bool(FALSE)
                   ELSE IF isPercentField(key) THEN Num(0)
                   ELSE v1
              ELSE v1
  IN  IF v2.t = "num" /\ ranges[key].has
           /\ ranges[key].min.t = "num" /\ ranges[key].max.t = "num"
        THEN NumR(clamp(v2.r, ranges[key].min.r, ranges[key].max.r))
        ELSE v2

normalizeSessionValues(session, schemaFields, ranges) ==
  [k \in AllKeys |->
     IF k \in schemaFields THEN normalizeValue(session[k], k, ranges)
     ELSE session[k]]

(***************************************************************************)
(* validateSession.  A warning is a record [w, key, val].                  *)
(***************************************************************************)
Warn(kind, key, val) == [w |-> kind, key |-> key, val |-> val]

RECURSIVE MissingRequired(_, _)
MissingRequired(fields, session) ==
  IF fields = <<>> THEN <<>>
  ELSE LET value == session[Head(fields)]
       IN  (IF IsNullish(value) \/ value = Str(<<>>)
              THEN <<Warn("missing_required", Head(fields), Undef)>>
              ELSE <<>>)
           \o MissingRequired(Tail(fields), session)

\* enums: a sequence of entries [key, is_array, values]
RECURSIVE InvalidEnums(_, _)
InvalidEnums(enums, session) ==
  IF enums = <<>> THEN <<>>
  ELSE LET e == Head(enums)
           value == session[e.key]
       IN  (IF e.is_array /\ ~IsNullish(value) /\ value # Str(<<>>)
                 /\ value \notin e.values
              THEN <<Warn("invalid_enum", e.key, value)>>
              ELSE <<>>)
           \o InvalidEnums(Tail(enums), session)

HybridNormalizedWarning == Warn("hybrid_normalized", "", Undef)

\* the test of line 94, were it total !== 100 && total !== 0
hybridNeedsNormalizingNonzero(total) == total # R100 /\ total # RZero

\* total !== 100 && total > 0
hybridNeedsNormalizing(total) == total # R100 /\ RGreater(total, RZero)

validateSession(session, schema, enums, method, warnings) ==
  LET requiredFields ==
        schema.required_core_fields \o schema.required_time_model_fields
      w1 == warnings \o MissingRequired(requiredFields, session)
               \o InvalidEnums(enums, session)
      poolishShare ==
        ToNumber(Coalesce(session["hybrid_poolish_share_percent"], Num(0)))
      bigaShare ==
        ToNumber(Coalesce(session["hybrid_biga_share_percent"], Num(0)))
      total == RAdd(poolishShare, bigaShare)
      normalizedPoolish == round(RMul(RDiv(poolishShare, total), R100), 2)
  IN  IF method.preferment.present
           /\ method.preferment.type = "hybrid_poolish_biga"
           /\ hybridNeedsNormalizing(total)
        THEN [session |->
                [session EXCEPT
                   !["hybrid_poolish_share_percent"] = NumR(normalizedPoolish),
                   !["hybrid_biga_share_percent"] =
                      NumR(round(RSub(R100, normalizedPoolish), 2))],
              warnings |-> Append(w1, HybridNormalizedWarning)]
        ELSE [session |-> session, warnings |-> w1]

(***************************************************************************)
(* applySafetyRules.  rules.diastatic_malt is [present, has_disallow,      *)
(* disallow (the oven_type values of its rules), max_percent];             *)
(* rules.honey is [present, has_map, map, max_percent]; rules.oil is       *)
(* [present, max_percent].                                                 *)
(***************************************************************************)
\* max_percent_by_oven_type[ovenType]
LookupOven(map, ovenType) ==
  IF ovenType \in DOMAIN map THEN map[ovenType] ELSE Undef

\* maxHoney, were the flat ceiling to take precedence over the map
honeyCeilingFlatFirst(honey, ovenType) ==
  IF honey.max_percent.t = "num" THEN honey.max_percent
  ELSE IF honey.has_map /\ Truthy(ovenType)
    THEN Coalesce(LookupOven(honey.map, ovenType), Null)
  ELSE Null

\* maxHoney of applySafetyRules
honeyCeiling(honey, ovenType) ==
  LET byOven == IF honey.has_map /\ Truthy(ovenType)
                  THEN Coalesce(LookupOven(honey.map, ovenType), Null)
                  ELSE Null
  IN  IF IsNullish(byOven) /\ honey.max_percent.t = "num"
        THEN honey.max_percent
        ELSE byOven

safetyMalt(sw, rules, ovenType) ==
  IF ~rules.diastatic_malt.present THEN sw
  ELSE
    LET malt == rules.diastatic_malt
        disallowed == malt.has_disallow /\ ovenType \in malt.disallow
        s1 == IF disallowed
                   /\ RGreater(ToNumber(Or(sw.session["diastatic_malt_percent"],
                                           Num(0))), RZero)
                THEN [session |-> [sw.session EXCEPT
                                     !["diastatic_malt_percent"] = Num(0)],
                      warnings |-> Append(sw.warnings,
                                          Warn("malt_disabled", "", Undef))]
                ELSE sw
    IN  IF malt.max_percent.t = "num"
             /\ RGreater(ToNumber(Or(s1.session["diastatic_malt_percent"],
                                     Num(0))), malt.max_percent.r)
          THEN [session |-> [s1.session EXCEPT
                               !["diastatic_malt_percent"] = malt.max_percent],
                warnings |-> Append(s1.warnings,
                                    Warn("malt_clamped", "", Undef))]
          ELSE s1

safetyHoney(sw, rules, ovenType) ==
  IF ~rules.honey.present THEN sw
  ELSE
    LET maxHoney == honeyCeiling(rules.honey, ovenType)
    IN  IF ~IsNullish(maxHoney)
             /\ RGreater(ToNumber(Or(sw.session["honey_percent"], Num(0))),
                         ToNumber(maxHoney))
          THEN [session |-> [sw.session EXCEPT !["honey_percent"] = maxHoney],
                warnings |-> Append(sw.warnings,
                                    Warn("honey_clamped", "", Undef))]
          ELSE sw

safetyOil(sw, rules) ==
  IF rules.oil.present /\ rules.oil.max_percent.t = "num"
       /\ RGreater(ToNumber(Or(sw.session["oil_percent"], Num(0))),
                   rules.oil.max_percent.r)
    THEN [session |-> [sw.session EXCEPT
                         !["oil_percent"] = rules.oil.max_percent],
          warnings |-> Append(sw.warnings, Warn("oil_clamped", "", Undef))]
    ELSE sw

\* applySafetyRules, were it skipped when warnings_enabled is false
applySafetyRulesUnlessSilenced(session, globalDefaults, warnings) ==
  IF session["warnings_enabled"] = Bool(FALSE)
    THEN [session |-> session, warnings |-> warnings]
    ELSE
      LET rules == globalDefaults.ingredient_safety_rules
          ovenType == session["oven_type"]
      IN  safetyOil(safetyHoney(safetyMalt(
            [session |-> session, warnings |-> warnings], rules, ovenType),
            rules, ovenType), rules)

applySafetyRules(session, globalDefaults, warnings) ==
  LET rules == globalDefaults.ingredient_safety_rules
      ovenType == session["oven_type"]
  IN  safetyOil(safetyHoney(safetyMalt(
        [session |-> session, warnings |-> warnings], rules, ovenType),
        rules, ovenType), rules)

(***************************************************************************)
(* computeTotals and deriveSession up to the batching loop.                *)
(***************************************************************************)
\* Number(session[key] || 0)
NumOr0(session, key) == ToNumber(Or(session[key], Num(0)))

\* object[key] for a key that may itself be undefined ("")
Get(o, key) == IF key \in AllKeys THEN o[key] ELSE Undef

TotalPercentFields ==
  <<"hydration_percent", "salt_percent", "oil_percent", "honey_percent",
    "sugar_percent", "diastatic_malt_percent", "yeast_percent">>

RECURSIVE SumPercent(_, _)
SumPercent(fields, session) ==
  IF fields = <<>> THEN RZero
  ELSE RAdd(SumPercent(SubSeq(fields, 1, Len(fields) - 1), session),
            ROr(ToNumber(session[fields[Len(fields)]]), RZero))

computeTotals(session) ==
  LET totalPercent == SumPercent(TotalPercentFields, session)
      totalDoughG == NumOr0(session, "target_total_dough_g")
  IN  [totalDoughG |-> totalDoughG,
       flourG |-> IF RGreater(totalPercent, RZero)
                    THEN RDiv(totalDoughG,
                              RAdd(RInt(1), RDiv(totalPercent, R100)))
                    ELSE totalDoughG]

\* targetTotalDoughG of deriveSession (not rounded)
targetTotalDoughG(session) ==
  LET targetPizzaCount == NumOr0(session, "target_pizza_count")
      doughUnitWeightG == NumOr0(session, "dough_unit_weight_g")
      panArea == NumOr0(session, "pan_or_tray_area_cm2")
      gramsPerCm2 == NumOr0(session, "dough_grams_per_cm2")
  IN  IF RGreater(panArea, RZero) /\ RGreater(gramsPerCm2, RZero)
        THEN RMul(panArea, gramsPerCm2)
      ELSE IF RGreater(targetPizzaCount, RZero)
                /\ RGreater(doughUnitWeightG, RZero)
        THEN RMul(targetPizzaCount, doughUnitWeightG)
      ELSE RZero

\* maxBatch of deriveSession
maxBatchOf(session, globalDefaults) ==
  ROr(ToNumber(session["batching_max_dough_mass_g"]),
      ROr(ToNumber(globalDefaults.batching_max_dough_mass_per_batch_g),
          RZero))

NoComponents ==
  [present |-> FALSE, poolish_flour_g |-> RZero, poolish_water_g |-> RZero,
   biga_flour_g |-> RZero, biga_water_g |-> RZero]

\* session after deriveSession wrote target_total_dough_g back
withTarget(session) ==
  [session EXCEPT
     !["target_total_dough_g"] = NumR(round(targetTotalDoughG(session), 1))]

\* Number(session[key] || 0) / 100
Pct(session, key) == RDiv(NumOr0(session, key), R100)

\* the total masses of deriveSession, not rounded
totalMasses(session, totalFlourG) ==
  [flour |-> totalFlourG,
   water |-> RMul(totalFlourG, Pct(session, "hydration_percent")),
   salt |-> RMul(totalFlourG, Pct(session, "salt_percent")),
   oil |-> RMul(totalFlourG, Pct(session, "oil_percent")),
   honey |-> RMul(totalFlourG, Pct(session, "honey_percent")),
   malt |-> RMul(totalFlourG, Pct(session, "diastatic_malt_percent")),
   sugar |-> RMul(totalFlourG, Pct(session, "sugar_percent")),
   yeast |-> RMul(totalFlourG, Pct(session, "yeast_percent"))]

\* the condition of the preferment split
prefermentActive(session, method) ==
  /\ Truthy(session["preferment_enabled"])
  /\ method.preferment.present
  /\ RGreater(ToNumber(session["preferment_flour_percent_of_total"]), RZero)

isHybrid(session, method) ==
  prefermentActive(session, method)
    /\ method.preferment.type = "hybrid_poolish_biga"

prefermentFlourG(session, method, totals) ==
  IF prefermentActive(session, method)
    THEN RMul(totals.flour, Pct(session, "preferment_flour_percent_of_total"))
    ELSE RZero

\* Number(session[key]) || Number(method?.defaults?.[key]) || fallback
componentHydration(session, method, key, fallback) ==
  ROr(ToNumber(Get(session, key)),
      ROr(ToNumber(Get(method.defaults, key)), RInt(fallback)))

\* flour and water of the poolish and the biga, not rounded
hybridComponents(session, method, prefFlourG) ==
  [poolish_flour |->
     RMul(prefFlourG, Pct(session, "hybrid_poolish_share_percent")),
   biga_flour |-> RMul(prefFlourG, Pct(session, "hybrid_biga_share_percent")),
   poolish_water |->
     RMul(RMul(prefFlourG, Pct(session, "hybrid_poolish_share_percent")),
          RDiv(componentHydration(session, method,
                 method.preferment.poolish_hydration_field, 100), R100)),
   biga_water |->
     RMul(RMul(prefFlourG, Pct(session, "hybrid_biga_share_percent")),
          RDiv(componentHydration(session, method,
                 method.preferment.biga_hydration_field, 45), R100))]

\* prefermentFlourG, prefermentWaterG, prefermentYeastG
prefermentMasses(session, method, totals, prefFlourG, comps) ==
  [flour |-> prefFlourG,
   water |->
     IF isHybrid(session, method)
       THEN RAdd(comps.poolish_water, comps.biga_water)
     ELSE IF prefermentActive(session, method)
       THEN RMul(prefFlourG, Pct(session, "preferment_hydration_percent"))
     ELSE RZero,
   yeast |->
     IF prefermentActive(session, method)
       THEN RMul(totals.yeast, RDiv(prefFlourG, ROr(totals.flour, RInt(1))))
       ELSE RZero]

starterActive(session, method) ==
  /\ Truthy(session["starter_enabled"])
  /\ method.starter
  /\ RGreater(ToNumber(session["starter_inoculation_percent"]), RZero)

starterFlourG(session, method, totals) ==
  IF starterActive(session, method)
    THEN RMul(totals.flour, Pct(session, "starter_inoculation_percent"))
    ELSE RZero

\* starterFlourG, starterWaterG
starterMasses(session, method, flourG) ==
  [flour |-> flourG,
   water |->
     IF starterActive(session, method)
       THEN RMul(flourG,
                 RDiv(ToNumber(Or(session["starter_hydration_percent"],
                                  Num(100))), R100))
       ELSE RZero]

\* the assignments to derived, its batches still empty
derivedRecord(session, method, totals, pref, comps, starter) ==
  [target_total_dough_g |-> session["target_total_dough_g"].r,
   total_flour_g |-> round(totals.flour, 1),
   total_water_g |-> round(totals.water, 1),
   total_salt_g |-> round(totals.salt, 1),
   total_oil_g |-> round(totals.oil, 1),
   total_honey_g |-> round(totals.honey, 1),
   total_malt_g |-> round(totals.malt, 1),
   total_sugar_g |-> round(totals.sugar, 1),
   total_yeast_g |-> round(totals.yeast, 3),
   preferment_flour_g |-> round(pref.flour, 1),
   preferment_water_g |-> round(pref.water, 1),
   preferment_yeast_g |-> round(pref.yeast, 3),
   preferment_total_g |->
     round(RAdd(RAdd(pref.flour, pref.water), pref.yeast), 1),
   starter_flour_g |-> round(starter.flour, 1),
   starter_water_g |-> round(starter.water, 1),
   starter_total_g |-> round(RAdd(starter.flour, starter.water), 1),
   preferment_components |->
     IF isHybrid(session, method)
       THEN [present |-> TRUE,
             poolish_flour_g |-> round(comps.poolish_flour, 1),
             poolish_water_g |-> round(comps.poolish_water, 1),
             biga_flour_g |-> round(comps.biga_flour, 1),
             biga_water_g |-> round(comps.biga_water, 1)]
       ELSE NoComponents,
   final_mix_flour_g |->
     round(RSub(totals.flour,
                RAdd(IF method.subtract_preferment THEN pref.flour ELSE RZero,
                     IF method.subtract_starter THEN starter.flour
                     ELSE RZero)), 1),
   final_mix_water_g |->
     round(RSub(totals.water,
                RAdd(IF method.subtract_preferment THEN pref.water ELSE RZero,
                     IF method.subtract_starter THEN starter.water
                     ELSE RZero)), 1),
   final_mix_salt_g |-> round(totals.salt, 1),
   final_mix_oil_g |-> round(totals.oil, 1),
   final_mix_honey_g |-> round(totals.honey, 1),
   final_mix_malt_g |-> round(totals.malt, 1),
   final_mix_sugar_g |-> round(totals.sugar, 1),
   final_mix_yeast_g |-> round(RSub(totals.yeast, pref.yeast), 3),
   batches |-> <<>>]

deriveWithPreferment(session, method, totals, prefFlourG, comps) ==
  derivedRecord(session, method, totals,
                prefermentMasses(session, method, totals, prefFlourG, comps),
                comps,
                starterMasses(session, method,
                              starterFlourG(session, method, totals)))

deriveWithTotals(session, method, totals) ==
  deriveWithPreferment(session, method, totals,
    prefermentFlourG(session, method, totals),
    hybridComponents(session, method,
                     prefermentFlourG(session, method, totals)))

\* deriveSession from the session that holds target_total_dough_g
deriveFrom(session, method) ==
  deriveWithTotals(session, method,
                   totalMasses(session, computeTotals(session).flourG))

\* the derived record of deriveSession(session0, ...), its batches still empty
deriveMasses(session0, method) == deriveFrom(withTarget(session0), method)

\* one pass of the batching loop's body over its locals
batchBody(loop) ==
  LET mass == MathMin(loop.maxBatch, loop.remaining)
  IN  [loop EXCEPT
         !.batches = Append(@, [batch_index |-> loop.idx,
                                dough_mass_g |-> round(mass, 1)]),
         !.remaining = RSub(@, mass),
         !.idx = @ + 1]

\* the locals of deriveSession when the batching loop is reached
batchLocals(session, globalDefaults) ==
  LET maxBatch == maxBatchOf(session, globalDefaults)
      target == targetTotalDoughG(session)
  IN  [maxBatch |-> maxBatch,
       target |-> target,
       entered |-> RGreater(maxBatch, RZero) /\ RGreater(target, RZero),
       remaining |-> target,
       idx |-> 1,
       batches |-> <<>>]

\* while (remaining > 0), inside if (maxBatch > 0 && targetTotalDoughG > 0)
batchLoopRuns(loop) == loop.entered /\ RGreater(loop.remaining, RZero)

\* the loop run to its end, for a loop of at most fuel passes
RECURSIVE runBatches(_, _)
runBatches(loop, fuel) ==
  IF batchLoopRuns(loop) /\ fuel > 0
    THEN runBatches(batchBody(loop), fuel - 1)
    ELSE loop

(***************************************************************************)
(* getPresetOverrides and the merge of resolveSession.                     *)
(* A method is [method_id, has_defaults, defaults, ranges, preferment,     *)
(* starter, subtract_preferment, subtract_starter]; a preset is            *)
(* [id, pizza_style_id, oven_type, flour_blend_id, has_overrides,          *)
(* overrides]; an optional object is [present, obj].                       *)
(***************************************************************************)
NoPreferment ==
  [present |-> FALSE, type |-> "", poolish_hydration_field |-> "",
   biga_hydration_field |-> ""]

\* the {} that stands for a method when the catalog is empty
EmptyMethod ==
  [method_id |-> Undef, has_defaults |-> FALSE, defaults |-> EmptyObj,
   ranges |-> NoRanges, preferment |-> NoPreferment, starter |-> FALSE,
   subtract_preferment |-> FALSE, subtract_starter |-> FALSE]

NoObj == [present |-> FALSE, obj |-> EmptyObj]
SomeObj(o) == [present |-> TRUE, obj |-> o]

SelectionFields == {"pizza_style_id", "oven_type", "flour_blend_id"}

\* the selection fields of a preset that are not null
selectionOverrides(preset) ==
  [k \in AllKeys |->
     IF k \in SelectionFields /\ ~IsNullish(preset[k]) THEN preset[k]
     ELSE Undef]

getPresetOverrides(preset) ==
  IF ~preset.present THEN NoObj
  ELSE IF ~preset.obj.has_overrides THEN NoObj
  ELSE SomeObj(Spread(selectionOverrides(preset.obj), preset.obj.overrides))

\* methods.find(...) || methods[0] || {}
findMethod(methods, method_id) ==
  IF \E i \in 1..Len(methods) : methods[i].method_id = method_id
    THEN methods[CHOOSE i \in 1..Len(methods) :
                   /\ methods[i].method_id = method_id
                   /\ \A j \in 1..(i - 1) : methods[j].method_id # method_id]
  ELSE IF methods # <<>> THEN methods[1]
  ELSE EmptyMethod

\* presets.find(...) || null
findPreset(presets, preset_id) ==
  IF \E i \in 1..Len(presets) : presets[i].id = preset_id
    THEN [present |-> TRUE,
          obj |-> presets[CHOOSE i \in 1..Len(presets) :
                            /\ presets[i].id = preset_id
                            /\ \A j \in 1..(i - 1) : presets[j].id # preset_id]]
    ELSE [present |-> FALSE, obj |-> <<>>]

\* applyOverrides, were it not to test schemaFields.has(key)
applyOverridesAnyKey(resolved, source, schemaFields) ==
  IF ~source.present THEN resolved
  ELSE [k \in AllKeys |->
          IF Has(source.obj, k) THEN source.obj[k] ELSE resolved[k]]

\* applyOverrides of resolveSession
applyOverrides(resolved, source, schemaFields) ==
  IF ~source.present THEN resolved
  ELSE [k \in AllKeys |->
          IF Has(source.obj, k) /\ k \in schemaFields THEN source.obj[k]
          ELSE resolved[k]]

\* the style-based target sizing: [found, target_pizza_count,
\* dough_unit_weight_g]
styleDefaults(styleId) ==
  CASE styleId = Id("neapolitan_round") ->
         [found |-> TRUE, target_pizza_count |-> Num(6),
          dough_unit_weight_g |-> Num(280)]
    [] styleId = Id("teglia_bonci") ->
         [found |-> TRUE, target_pizza_count |-> Num(1),
          dough_unit_weight_g |-> Num(1200)]
    [] styleId = Id("focaccia") ->
         [found |-> TRUE, target_pizza_count |-> Num(1),
          dough_unit_weight_g |-> Num(1200)]
    [] styleId = Id("pizza_rossa") ->
         [found |-> TRUE, target_pizza_count |-> Num(1),
          dough_unit_weight_g |-> Num(1000)]
    [] OTHER ->
         [found |-> FALSE, target_pizza_count |-> Undef,
          dough_unit_weight_g |-> Undef]

TargetFields == {"target_pizza_count", "dough_unit_weight_g"}

\* preset?.pizza_style_id || resolved.pizza_style_id
styleIdForDefaults(preset, resolved) ==
  Or(IF preset.present THEN preset.obj.pizza_style_id ELSE Undef,
     resolved["pizza_style_id"])

hasTargetOverrides(presetOverrides) ==
  presetOverrides.present
    /\ \E k \in TargetFields : Has(presetOverrides.obj, k)

applyStyleDefaults(resolved, preset, presetOverrides) ==
  LET sd == styleDefaults(styleIdForDefaults(preset, resolved))
  IN  IF ~hasTargetOverrides(presetOverrides) /\ sd.found
        THEN [k \in AllKeys |->
                IF k \in TargetFields /\ IsNullish(resolved[k]) THEN sd[k]
                ELSE resolved[k]]
        ELSE resolved

\* resolveSession up to the two applyOverrides calls that end the merge
mergeSession(cfg, req) ==
  LET schemaFields == SchemaFieldSet(cfg.schema)
      method == findMethod(cfg.methods, req.method_id)
      preset == findPreset(cfg.presets, req.preset_id)
      r0 == buildEmptySessionFromSchema(cfg.schema)
      r1 == IF "method_id" \in schemaFields
              THEN [r0 EXCEPT !["method_id"] =
                      Or(method.method_id, Or(req.method_id, r0["method_id"]))]
              ELSE r0
      r2 == applyOverrides(r1,
              [present |-> method.has_defaults, obj |-> method.defaults],
              schemaFields)
      presetOverrides == getPresetOverrides(preset)
      r3 == applyStyleDefaults(r2, preset, presetOverrides)
      r4 == applyOverrides(r3, presetOverrides, schemaFields)
  IN  applyOverrides(r4, req.user_session_overrides, schemaFields)

(***************************************************************************)
(* The configuration snapshot (window.SESSION_V2_CONFIG) of the model.     *)
(***************************************************************************)
Schema ==
  [required_core_fields |->
     <<"method_id", "pizza_style_id", "oven_type", "hydration_percent",
       "salt_percent">>,
   required_time_model_fields |-> <<"total_fermentation_hours">>,
   optional_fields |->
     <<"flour_blend_id", "target_pizza_count", "dough_unit_weight_g",
       "pan_or_tray_area_cm2", "dough_grams_per_cm2", "oil_percent",
       "honey_percent", "sugar_percent", "diastatic_malt_percent",
       "yeast_percent", "preferment_enabled",
       "preferment_flour_percent_of_total", "preferment_hydration_percent",
       "hybrid_poolish_share_percent", "hybrid_biga_share_percent",
       "poolish_hydration_percent", "biga_hydration_percent",
       "starter_enabled", "starter_inoculation_percent",
       "starter_hydration_percent", "batching_max_dough_mass_g",
       "warnings_enabled">>]

HybridMethod ==
  [method_id |-> Id("hybrid"),
   has_defaults |-> TRUE,
   defaults |->
     Obj("pizza_style_id" :> Id("neapolitan_round")
         @@ "oven_type" :> Id("wood_fired")
         @@ "hydration_percent" :> Num(58)
         @@ "salt_percent" :> Num(2)
         @@ "total_fermentation_hours" :> Num(24)
         @@ "preferment_enabled" :> Bool(TRUE)
         @@ "preferment_flour_percent_of_total" :> Num(20)
         @@ "hybrid_poolish_share_percent" :> Num(50)
         @@ "hybrid_biga_share_percent" :> Num(50)
         @@ "poolish_hydration_percent" :> Num(100)
         @@ "warnings_enabled" :> Bool(TRUE)
         @@ "notes" :> Id("method_note")),
   ranges |->
     [k \in AllKeys |->
        CASE k = "hydration_percent" -> Range(Num(50), Num(80))
          [] k = "honey_percent" -> Range(Num(0), Num(20))
          [] k = "preferment_flour_percent_of_total" -> Range(Num(0), Num(50))
          [] OTHER -> NoRange],
   preferment |->
     [present |-> TRUE, type |-> "hybrid_poolish_biga",
      poolish_hydration_field |-> "poolish_hydration_percent",
      biga_hydration_field |-> "biga_hydration_percent"],
   starter |-> FALSE,
   subtract_preferment |-> TRUE,
   subtract_starter |-> FALSE]

SourdoughMethod ==
  [method_id |-> Id("sourdough"),
   has_defaults |-> TRUE,
   defaults |->
     Obj("hydration_percent" :> Num(73)
         @@ "salt_percent" :> Num(2)
         @@ "target_pizza_count" :> Null
         @@ "starter_enabled" :> Bool(TRUE)
         @@ "starter_inoculation_percent" :> Num(20)
         @@ "preferment_hydration_percent" :> Num(100)),
   ranges |->
     [k \in AllKeys |->
        IF k = "sugar_percent" THEN Range(Null, Num(10)) ELSE NoRange],
   preferment |->
     [present |-> TRUE, type |-> "poolish", poolish_hydration_field |-> "",
      biga_hydration_field |-> ""],
   starter |-> TRUE,
   subtract_preferment |-> FALSE,
   subtract_starter |-> TRUE]

ClassicPreset ==
  [id |-> Id("classic"), pizza_style_id |-> Id("neapolitan_round"),
   oven_type |-> Id("wood_fired"), flour_blend_id |-> Id("tipo00"),
   has_overrides |-> TRUE,
   overrides |-> Obj("hydration_percent" :> Num(62)
                     @@ "target_pizza_count" :> Num(4))]

\* a preset with selection fields and no overrides map
TegliaPreset ==
  [id |-> Id("teglia"), pizza_style_id |-> Id("teglia_bonci"),
   oven_type |-> Id("electric"), flour_blend_id |-> Null,
   has_overrides |-> FALSE, overrides |-> EmptyObj]

RossaPreset ==
  [id |-> Id("rossa"), pizza_style_id |-> Id("pizza_rossa"),
   oven_type |-> Null, flour_blend_id |-> Id("semola"),
   has_overrides |-> TRUE,
   overrides |-> Obj("oven_type" :> Id("gas")
                     @@ "honey_percent" :> Num(12)
                     @@ "notes" :> Id("preset_note"))]

OvenTypes == {Id("wood_fired"), Id("electric"), Id("gas")}

Enums ==
  <<[key |-> "oven_type", is_array |-> TRUE, values |-> OvenTypes],
    [key |-> "flour_blend_id", is_array |-> FALSE, values |-> {}],
    [key |-> "pizza_style_id", is_array |-> TRUE,
     values |-> {Id("neapolitan_round"), Id("teglia_bonci"), Id("focaccia"),
                 Id("pizza_rossa")}]>>

NoHoneyRule ==
  [present |-> FALSE, has_map |-> FALSE, map |-> <<>>, max_percent |-> Undef]

HoneyRule(has_map, map, flat) ==
  [present |-> TRUE, has_map |-> has_map, map |-> map, max_percent |-> flat]

\* honey: { max_percent_by_oven_type: { wood_fired: 5 }, max_percent: 8 }
BaseHoneyRule == HoneyRule(TRUE, Id("wood_fired") :> Num(5), Num(8))

GlobalDefaults(honey, batching) ==
  [ingredient_safety_rules |->
     [diastatic_malt |->
        [present |-> TRUE, has_disallow |-> TRUE,
         disallow |-> {Id("wood_fired")}, max_percent |-> Num(1)],
      honey |-> honey,
      oil |-> [present |-> TRUE, max_percent |-> Num(6)]],
   batching_max_dough_mass_per_batch_g |-> batching]

Config(methods, presets, honey, batching) ==
  [schema |-> Schema, methods |-> methods, presets |-> presets,
   global_defaults |-> GlobalDefaults(honey, batching), enums |-> Enums]

BaseConfig ==
  Config(<<HybridMethod, SourdoughMethod>>,
         <<ClassicPreset, TegliaPreset, RossaPreset>>, BaseHoneyRule,
         Num(2000))

\* a snapshot whose method and preset catalogs are empty
EmptyCatalogConfig == Config(<<>>, <<>>, BaseHoneyRule, Num(2000))

Request(method_id, preset_id, overrides) ==
  [method_id |-> method_id, preset_id |-> preset_id,
   user_session_overrides |-> overrides]

(***************************************************************************)
(* The requests and snapshots tried: five families, each varying the       *)
(* inputs of one stage of the pipeline.                                    *)
(***************************************************************************)
Sc(cfg, req) == [config |-> cfg, request |-> req]

MethodIds == {Undef, Id("hybrid"), Id("sourdough"), Id("nope")}
PresetIds == {Undef, Id("classic"), Id("teglia"), Id("rossa"), Id("nope")}

\* layering of defaults, preset and user overrides
MergeScenarios ==
  {Sc(cfg, Request(m, p, SomeObj(Obj(
        "oven_type" :> a @@ "target_pizza_count" :> b
        @@ "dough_unit_weight_g" :> c @@ "notes" :> d
        @@ "pizza_style_id" :> e @@ "method_id" :> f)))) :
     cfg \in {BaseConfig}, m \in MethodIds, p \in PresetIds,
     a \in {Undef, Id("electric"), Null}, b \in {Undef, Num(3)},
     c \in {Undef, Num(250)}, d \in {Undef, Id("user_note")},
     e \in {Undef, Id("focaccia")}, f \in {Undef, Id("custom")}}
  \cup
  {Sc(EmptyCatalogConfig, Request(m, p, o)) :
     m \in {Undef, Id("hybrid")}, p \in {Undef, Id("classic")},
     o \in {NoObj,
            SomeObj(Obj("pizza_style_id" :> Id("pizza_rossa")
                        @@ "notes" :> Id("user_note")))}}

RawValues ==
  {Undef, Null, Bool(TRUE), Num(65), Num(95), Num(-5), NumR(RNaN),
   NumR(RPInf),
   Str(<<>>), Str(<<" ", " ">>), Str(<<"1", "2", ",", "5">>),
   Str(<<" ", "7", "2", " ">>), Str(<<"a", "b", "c">>),
   Str(<<"1", ",", "5", ",", "3">>), Str(<<"-", "3">>), Str(<<"Infinity">>)}

\* raw values of every kind in the fields the normalizer treats differently
NormalizeScenarios ==
  {Sc(BaseConfig, Request(m, Undef, SomeObj(Obj(
        "hydration_percent" :> a @@ "sugar_percent" :> b
        @@ "preferment_enabled" :> c @@ "total_fermentation_hours" :> d)))) :
     m \in {Id("hybrid"), Id("sourdough")}, a \in RawValues,
     b \in {Undef, Num(4), Num(12), Str(<<"a", "b", "c">>)},
     c \in {Undef, Null, Bool(TRUE), Str(<<>>), Str(<<"y", "e", "s">>),
            Num(1)},
     d \in {Undef, Str(<<>>), Str(<<"4", "8">>), Str(<<"s", "o", "o", "n">>)}}

ShareValues ==
  {Num(10 * k) : k \in (-1)..MaxShareStep}
    \cup {Undef, Null, NumD(3333), NumR(RPInf), Str(<<"a", "b", "c">>)}

\* the two shares of the hybrid preferment
HybridScenarios ==
  {Sc(BaseConfig, Request(m, Undef, SomeObj(Obj(
        "hybrid_poolish_share_percent" :> a
        @@ "hybrid_biga_share_percent" :> b @@ "warnings_enabled" :> w)))) :
     m \in {Id("hybrid"), Id("sourdough")}, a \in ShareValues,
     b \in ShareValues, w \in {Undef, Bool(FALSE)}}

HoneyRules ==
  {NoHoneyRule} \cup
  {HoneyRule(hm, map, flat) :
     hm \in {TRUE}, flat \in {Undef, Num(8)},
     map \in {Id("wood_fired") :> Num(5),
              Id("wood_fired") :> Num(0) @@ Id("electric") :> Num(12),
              Id("wood_fired") :> Null}}
  \cup {HoneyRule(FALSE, <<>>, flat) : flat \in {Undef, Num(8)}}

\* the ingredient ceilings against oven type and percentages
SafetyScenarios ==
  {Sc(Config(<<HybridMethod, SourdoughMethod>>, <<>>, honey, Num(2000)),
      Request(m, Undef, SomeObj(Obj(
        "oven_type" :> o @@ "honey_percent" :> h @@ "warnings_enabled" :> w
        @@ "oil_percent" :> oil @@ "diastatic_malt_percent" :> malt)))) :
     honey \in HoneyRules, m \in {Id("hybrid"), Id("sourdough")},
     o \in {Undef, Id("wood_fired"), Id("electric"), Str(<<>>)},
     h \in {Undef, Num(3), Num(6), Num(10), Str(<<"a", "b", "c">>),
            Str(<<"Infinity">>)},
     w \in {Bool(TRUE), Bool(FALSE)},
     oil \in {Undef, Num(9)}, malt \in {Undef, Num(2)}}

\* dough mass targets and batch sizes
DeriveScenarios ==
  {Sc(Config(<<HybridMethod, SourdoughMethod>>, <<>>, BaseHoneyRule, g),
      Request(m, Undef, SomeObj(Obj(
        "batching_max_dough_mass_g" :> mb @@ "target_pizza_count" :> n
        @@ "dough_unit_weight_g" :> u @@ "pan_or_tray_area_cm2" :> pg[1]
        @@ "dough_grams_per_cm2" :> pg[2])))) :
     g \in {Undef, Num(2000), Num(-1)},
     m \in {Id("hybrid"), Id("sourdough")},
     mb \in {Undef, Null, Num(0), Num(-5), Num(500), NumD(25025), NumD(12550),
             Str(<<"a", "b", "c">>), Str(<<"Infinity">>)},
     n \in {Undef, Num(0), Num(2), Num(3)},
     u \in {Undef, NumD(25025), NumD(12550), Num(1000), Str(<<"Infinity">>)},
     pg \in {<<Undef, Undef>>, <<Num(2), Undef>>, <<Num(2), NumD(45)>>}}

(***************************************************************************)
(* resolveSession as a state machine: one action per stage, and one per    *)
(* pass of the batching loop of deriveSession.                             *)
(***************************************************************************)
VARIABLES
  config,     \* window.SESSION_V2_CONFIG
  request,    \* the argument of resolveSession
  pc,         \* the stage resolveSession has reached
  resolved,   \* the session record
  warnings,   \* the warnings accumulated so far
  derived,    \* the derived record
  loop,       \* the locals of deriveSession's batching
  result      \* what resolveSession returned

vars == <<config, request, pc, resolved, warnings, derived, loop, result>>

\* const method of resolveSession
Method == findMethod(config.methods, request.method_id)

NoLoop ==
  [maxBatch |-> RZero, target |-> RZero, entered |-> FALSE,
   remaining |-> RZero, idx |-> 1, batches |-> <<>>]

NoDerived == deriveMasses(EmptyObj, EmptyMethod)

NoResult ==
  [returned |-> FALSE, resolved_session |-> EmptyObj,
   derived_session |-> NoDerived, warnings |-> <<>>]

\* applySafetyRules on what validateSession returned
safetyAfter(validated, globalDefaults) ==
  applySafetyRules(validated.session, globalDefaults, validated.warnings)

\* the session of a request after merge, normalization, validation, safety
pipelineTo(cfg, req, method) ==
  safetyAfter(
    validateSession(
      normalizeSessionValues(mergeSession(cfg, req),
                             SchemaFieldSet(cfg.schema), method.ranges),
      cfg.schema, cfg.enums, method, <<>>),
    cfg.global_defaults)

\* the locals with which deriveSession reaches its loop
LoopOf(sc) ==
  batchLocals(
    pipelineTo(sc.config, sc.request,
               findMethod(sc.config.methods, sc.request.method_id)).session,
    sc.config.global_defaults)

\* a loop that ends within MaxIdx passes, or never ends
loopWithinBound(l) ==
  ~(l.entered /\ RIsFinite(l.target)
    /\ RLess(RMul(RInt(MaxIdx), l.maxBatch), l.target))

WithinBound(sc) == loopWithinBound(LoopOf(sc))

\* the initial states: a request and a snapshot of one family, nothing run
InitWith(scenarios) ==
  /\ \E sc \in scenarios :
       WithinBound(sc) /\ config = sc.config /\ request = sc.request
  /\ pc = "start"
  /\ resolved = EmptyObj
  /\ warnings = <<>>
  /\ derived = NoDerived
  /\ loop = NoLoop
  /\ result = NoResult

Init ==
  \/ InitWith(MergeScenarios)
  \/ InitWith(NormalizeScenarios)
  \/ InitWith(HybridScenarios)
  \/ InitWith(SafetyScenarios)
  \/ InitWith(DeriveScenarios)

\* lines 316-369: lookups, schema defaults and the four layers of overrides
Merge ==
  /\ pc = "start"
  /\ resolved' = mergeSession(config, request)
  /\ pc' = "merged"
  /\ UNCHANGED <<config, request, warnings, derived, loop, result>>

Normalize ==
  /\ pc = "merged"
  /\ resolved' = normalizeSessionValues(resolved,
                   SchemaFieldSet(config.schema), Method.ranges)
  /\ pc' = "normalized"
  /\ UNCHANGED <<config, request, warnings, derived, loop, result>>

Validate ==
  /\ pc = "normalized"
  /\ LET v == validateSession(resolved, config.schema, config.enums, Method,
                              warnings)
     IN  resolved' = v.session /\ warnings' = v.warnings
  /\ pc' = "validated"
  /\ UNCHANGED <<config, request, derived, loop, result>>

ApplySafety ==
  /\ pc = "validated"
  /\ LET v == applySafetyRules(resolved, config.global_defaults, warnings)
     IN  resolved' = v.session /\ warnings' = v.warnings
  /\ pc' = "safe"
  /\ UNCHANGED <<config, request, derived, loop, result>>

\* deriveSession down to the batching loop
DeriveBegin ==
  /\ pc = "safe"
  /\ resolved' = withTarget(resolved)
  /\ derived' = deriveMasses(resolved, Method)
  /\ loop' = batchLocals(resolved, config.global_defaults)
  /\ pc' = "batching"
  /\ UNCHANGED <<config, request, warnings, result>>

\* one pass of while (remaining > 0)
BatchStep ==
  /\ pc = "batching"
  /\ batchLoopRuns(loop)
  /\ loop.idx <= MaxIdx
  /\ loop' = batchBody(loop)
  /\ UNCHANGED <<config, request, pc, resolved, warnings, derived, result>>

\* the loop is over, or was never entered: derived.batches = batches
BatchExit ==
  /\ pc = "batching"
  /\ ~batchLoopRuns(loop)
  /\ derived' = [derived EXCEPT !.batches = loop.batches]
  /\ pc' = "derived"
  /\ UNCHANGED <<config, request, resolved, warnings, loop, result>>

\* finalWarnings of resolveSession
finalWarnings(session, ws) ==
  IF session["warnings_enabled"] # Bool(FALSE) THEN ws ELSE <<>>

Return ==
  /\ pc = "derived"
  /\ result' = [returned |-> TRUE, resolved_session |-> resolved,
                derived_session |-> derived,
                warnings |-> finalWarnings(resolved, warnings)]
  /\ pc' = "done"
  /\ UNCHANGED <<config, request, resolved, warnings, derived, loop>>

Next ==
  \/ Merge
  \/ Normalize
  \/ Validate
  \/ ApplySafety
  \/ DeriveBegin
  \/ BatchStep
  \/ BatchExit
  \/ Return

Spec == Init /\ [][Next]_vars


(***************************************************************************)
(* resolveSession as one function of the snapshot and the request, for the *)
(* requests whose batching loop ends within MaxIdx passes.                 *)
(***************************************************************************)
returnOf(safe, method, globalDefaults) ==
  [resolved_session |-> withTarget(safe.session),
   derived_session |->
     [deriveMasses(safe.session, method) EXCEPT
        !.batches = runBatches(batchLocals(safe.session, globalDefaults),
                               MaxIdx).batches],
   warnings |-> finalWarnings(safe.session, safe.warnings)]

resolveSession(cfg, req) ==
  returnOf(pipelineTo(cfg, req, findMethod(cfg.methods, req.method_id)),
           findMethod(cfg.methods, req.method_id), cfg.global_defaults)

(***************************************************************************)
(* The properties checked.                                                 *)
(***************************************************************************)
\* const preset and the schema field set of resolveSession
Preset == findPreset(config.presets, request.preset_id)
SchemaFields == SchemaFieldSet(config.schema)

\* how often the warning w occurs in ws
WarnCount(ws, w) == Cardinality({i \in 1..Len(ws) : ws[i] = w})

\* the category default of a schema field
CategoryDefault(k) ==
  IF isPercentField(k) THEN Num(0)
  ELSE IF isEnabledField(k) THEN Bool(FALSE)
  ELSE Null

\* the preset-derived overrides: the selection fields of a preset that
\* carries an overrides map, overlaid by that map
PresetLayer ==
  IF Preset.present /\ Preset.obj.has_overrides
    THEN [k \in AllKeys |->
            IF Has(Preset.obj.overrides, k) THEN Preset.obj.overrides[k]
            ELSE IF k \in SelectionFields /\ ~IsNullish(Preset.obj[k])
              THEN Preset.obj[k]
            ELSE Undef]
    ELSE EmptyObj

\* what lies below the style defaults: method.defaults, then (seeded) the
\* identifier of the method for method_id, then the category default
BelowStyle(k, seeded) ==
  IF Method.has_defaults /\ Has(Method.defaults, k) THEN Method.defaults[k]
  ELSE IF seeded /\ k = "method_id"
    THEN Or(Method.method_id, Or(request.method_id, CategoryDefault(k)))
  ELSE CategoryDefault(k)

\* the style whose target sizing is used: the preset's, else the one the
\* method defaults give
StyleOfRequest(seeded) ==
  Or(IF Preset.present THEN Preset.obj.pizza_style_id ELSE Undef,
     BelowStyle("pizza_style_id", seeded))

\* the value of the highest-precedence source that holds k
LayeredValue(k, seeded, guarded) ==
  IF request.user_session_overrides.present
       /\ Has(request.user_session_overrides.obj, k)
    THEN request.user_session_overrides.obj[k]
  ELSE IF Has(PresetLayer, k) THEN PresetLayer[k]
  ELSE IF /\ k \in TargetFields
          /\ styleDefaults(StyleOfRequest(seeded)).found
          /\ IsNullish(BelowStyle(k, seeded))
          /\ guarded => \A t \in TargetFields : ~Has(PresetLayer, t)
    THEN styleDefaults(StyleOfRequest(seeded))[k]
  ELSE BelowStyle(k, seeded)

C2_AlwaysCompletes ==
  [][pc = "batching" /\ batchLoopRuns(loop)
       => RLess(loop'.remaining, loop.remaining)]_vars

\* C3: after normalizeSessionValues every schema field whose name contains
\* "_percent" holds a finite number >= 0 (and <= the range max when the
\* method has a range for it), and every schema field whose name ends in
\* "_enabled" holds a strict boolean.
C3_NormalizedTypes ==
  pc = "normalized" =>
    \A k \in SchemaFields :
      /\ isPercentField(k) =>
           /\ resolved[k].t = "num"
           /\ RIsFinite(resolved[k].r)
           /\ ~RLess(resolved[k].r, RZero)
           /\ (Method.ranges[k].has /\ Method.ranges[k].max.t = "num")
                => ~RGreater(resolved[k].r, Method.ranges[k].max.r)
      /\ isEnabledField(k) => resolved[k].t = "bool"

\* a share of the hybrid preferment, a missing value read as 0
ShareOf(session, k) == ToNumber(Coalesce(session[k], Num(0)))

ShareSum(session) ==
  RAdd(ShareOf(session, "hybrid_poolish_share_percent"),
       ShareOf(session, "hybrid_biga_share_percent"))

\* round(poolish / sum * 100, 2)
PoolishOf100(session) ==
  round(RMul(RDiv(ShareOf(session, "hybrid_poolish_share_percent"),
                  ShareSum(session)), R100), 2)

IsHybridMethod ==
  Method.preferment.present /\ Method.preferment.type = "hybrid_poolish_biga"

\* the shares were rewritten by this step, with exactly one warning
SharesRewritten ==
  /\ resolved'["hybrid_poolish_share_percent"] = NumR(PoolishOf100(resolved))
  /\ resolved'["hybrid_biga_share_percent"] =
       NumR(round(RSub(R100, PoolishOf100(resolved)), 2))
  /\ WarnCount(warnings', HybridNormalizedWarning)
       = WarnCount(warnings, HybridNormalizedWarning) + 1

\* the shares were left alone by this step, with no normalization warning
SharesUntouched ==
  /\ resolved'["hybrid_poolish_share_percent"]
       = resolved["hybrid_poolish_share_percent"]
  /\ resolved'["hybrid_biga_share_percent"]
       = resolved["hybrid_biga_share_percent"]
  /\ WarnCount(warnings', HybridNormalizedWarning)
       = WarnCount(warnings, HybridNormalizedWarning)

SharesSumTo100 ==
  RAdd(ToNumber(resolved'["hybrid_poolish_share_percent"]),
       ToNumber(resolved'["hybrid_biga_share_percent"])) = R100

NonNegativeShare(session, k) ==
  RIsFinite(ShareOf(session, k)) /\ ~RLess(ShareOf(session, k), RZero)

HoneyRuleOf(cfg) == cfg.global_defaults.ingredient_safety_rules.honey

\* the honey ceiling: the entry of the oven type in the map, else the flat
\* ceiling, else none (Null)
HoneyCeilingOf(rule, ovenType) ==
  IF ~rule.present THEN Null
  ELSE IF /\ rule.has_map
          /\ ovenType \in DOMAIN rule.map
          /\ ~IsNullish(rule.map[ovenType])
    THEN rule.map[ovenType]
  ELSE IF rule.max_percent.t = "num" THEN rule.max_percent
  ELSE Null

HoneyWarning == Warn("honey_clamped", "", Undef)

HoneyExceeds(session, ceiling) ==
  /\ ~IsNullish(ceiling)
  /\ RGreater(ToNumber(Or(session["honey_percent"], Num(0))),
              ToNumber(ceiling))

\* C5: in applySafetyRules the honey ceiling is the entry for the current
\* oven_type in max_percent_by_oven_type when there is one, otherwise the
\* flat max_percent, otherwise none; when there is a ceiling and
\* honey_percent (missing read as 0) exceeds it, honey_percent becomes the
\* ceiling and one honey warning is appended; otherwise honey_percent is
\* unchanged and no honey warning is appended.
C5_HoneyCeiling ==
  [][pc = "validated" =>
       IF HoneyExceeds(resolved,
            HoneyCeilingOf(HoneyRuleOf(config), resolved["oven_type"]))
         THEN /\ resolved'["honey_percent"] =
                   HoneyCeilingOf(HoneyRuleOf(config), resolved["oven_type"])
              /\ WarnCount(warnings', HoneyWarning)
                   = WarnCount(warnings, HoneyWarning) + 1
         ELSE /\ resolved'["honey_percent"] = resolved["honey_percent"]
              /\ WarnCount(warnings', HoneyWarning)
                   = WarnCount(warnings, HoneyWarning)]_vars

\* honey 10 in a wood-fired oven, map {wood_fired: 5} and flat ceiling 8:
\* clamped to 5 with the warning
C5_Witness ==
  /\ pc = "safe"
  /\ HoneyRuleOf(config) = BaseHoneyRule
  /\ resolved["oven_type"] = Id("wood_fired")
  /\ request.user_session_overrides.obj["honey_percent"] = Num(10)
  /\ resolved["honey_percent"] = Num(5)
  /\ WarnCount(warnings, HoneyWarning) = 1

\* the same request asking for its warnings to be reported
WithWarningsReported(req) ==
  [req EXCEPT !.user_session_overrides =
     SomeObj([req.user_session_overrides.obj EXCEPT
                !["warnings_enabled"] = Bool(TRUE)])]

\* res returns no warnings and is otherwise the result reported, whose
\* warnings are the accumulated ones
SuppressedOnly(res, accumulated, reported) ==
  /\ res.warnings = <<>>
  /\ \A k \in AllKeys \ {"warnings_enabled"} :
       res.resolved_session[k] = reported.resolved_session[k]
  /\ res.derived_session = reported.derived_session
  /\ accumulated = reported.warnings

\* C6: when the resolved session's warnings_enabled is exactly false the
\* returned warnings are empty, while resolved_session (but for
\* warnings_enabled itself) and derived_session are those the same request
\* produces with its warnings reported, whose warnings are the ones
\* accumulated here; for any other value of warnings_enabled the returned
\* warnings are exactly those accumulated by the validator and the safety
\* rules, in order.
C6_WarningSuppression ==
  pc = "done" =>
    IF resolved["warnings_enabled"] = Bool(FALSE)
      THEN SuppressedOnly(result, warnings,
             resolveSession(config, WithWarningsReported(request)))
      ELSE result.warnings = warnings

\* a suppressed run in which honey was clamped all the same
C6_Witness ==
  /\ pc = "done"
  /\ resolved["warnings_enabled"] = Bool(FALSE)
  /\ request.user_session_overrides.obj["honey_percent"] = Num(10)
  /\ resolved["honey_percent"] = Num(5)
  /\ WarnCount(warnings, HoneyWarning) = 1
  /\ result.warnings = <<>>

RECURSIVE SumMasses(_)
SumMasses(batches) ==
  IF batches = <<>> THEN RZero
  ELSE RAdd(SumMasses(SubSeq(batches, 1, Len(batches) - 1)),
            batches[Len(batches)].dough_mass_g)

\* C7: with a positive maximum batch mass and a positive target the loop
\* yields batches indexed 1, 2, ..., n, each mass positive and at most the
\* maximum, every batch but the last equal to the maximum, and the masses
\* summing to derived target_total_dough_g exactly; when batching is
\* disabled or the target is 0 there are no batches.
C7_Batches ==
  pc = "derived" =>
    IF RGreater(loop.maxBatch, RZero) /\ RGreater(loop.target, RZero)
      THEN /\ \A i \in 1..Len(derived.batches) :
                /\ derived.batches[i].batch_index = i
                /\ RGreater(derived.batches[i].dough_mass_g, RZero)
                /\ ~RGreater(derived.batches[i].dough_mass_g, loop.maxBatch)
           /\ \A i \in 1..(Len(derived.batches) - 1) :
                derived.batches[i].dough_mass_g = loop.maxBatch
           /\ SumMasses(derived.batches) = derived.target_total_dough_g
      ELSE derived.batches = <<>>

\* C8: every selection field of a found preset that is not null and is
\* named in the schema is in the resolved session, unless the preset's
\* overrides map or the user overrides give that key, whether or not the
\* preset carries an overrides map.
C8_SelectionFields ==
  (pc = "merged" /\ Preset.present) =>
    \A k \in SelectionFields \cap SchemaFields :
      (/\ ~IsNullish(Preset.obj[k])
       /\ ~(Preset.obj.has_overrides /\ Has(Preset.obj.overrides, k))
       /\ ~(/\ request.user_session_overrides.present
            /\ Has(request.user_session_overrides.obj, k)))
        => resolved[k] = Preset.obj[k]

\* C9: the maximum batch mass is the session's batching_max_dough_mass_g
\* when that is positive, otherwise the global default, otherwise 0.
C9_MaxBatch ==
  pc = "batching" =>
    loop.maxBatch =
      IF RGreater(ToNumber(resolved["batching_max_dough_mass_g"]), RZero)
        THEN ToNumber(resolved["batching_max_dough_mass_g"])
        ELSE ROr(ToNumber(
                   config.global_defaults.batching_max_dough_mass_per_batch_g),
                 RZero)

HasNumericRange(k) ==
  /\ Method.ranges[k].has
  /\ Method.ranges[k].min.t = "num"
  /\ Method.ranges[k].max.t = "num"

\* C10: normalizing the normalized record again changes nothing; a number
\* inside the [min, max] range of its field is unchanged and a number
\* outside is moved to the nearest bound.
C10_Idempotent ==
  [][pc = "merged" =>
       /\ normalizeSessionValues(resolved', SchemaFields, Method.ranges)
            = resolved'
       /\ \A k \in SchemaFields :
            (resolved[k].t = "num" /\ HasNumericRange(k)) =>
              /\ RLess(resolved[k].r, Method.ranges[k].min.r)
                   => resolved'[k] = Method.ranges[k].min
              /\ RGreater(resolved[k].r, Method.ranges[k].max.r)
                   => resolved'[k] = Method.ranges[k].max
              /\ (/\ ~RLess(resolved[k].r, Method.ranges[k].min.r)
                  /\ ~RGreater(resolved[k].r, Method.ranges[k].max.r))
                   => resolved'[k] = resolved[k]]_vars

\* hydration 95 was moved to the range maximum 80, and "48" became 48
C10_Witness ==
  /\ pc = "normalized"
  /\ request.user_session_overrides.obj["hydration_percent"] = Num(95)
  /\ resolved["hydration_percent"] = Num(80)
  /\ request.user_session_overrides.obj["total_fermentation_hours"]
       = Str(<<"4", "8">>)
  /\ resolved["total_fermentation_hours"] = Num(48)

=============================================================================
